---- MODULE Spec2Model ----
(***************************************************************************)
(* A model of the type-erased error container of the anyhow crate: the     *)
(* heap block behind an Error, construction-kind resolution (kind.rs),     *)
(* the context combinator (context.rs), the wrapper payloads (wrapper.rs), *)
(* the ownership primitives (ptr.rs), the causal-chain cursor (chain.rs)   *)
(* and the display / debug rendering (fmt.rs).                             *)
(*                                                                         *)
(* Texts are sequences of one-character strings, so that rendering,        *)
(* splitting on '\n' and padding are computed and not assumed.             *)
(***************************************************************************)
EXTENDS Integers, Sequences, FiniteSets, TLC

VARIABLES heap, slots, captures, origin, refs, last, chain, yielded, out, handles, writer

vars == <<heap, slots, captures, origin, refs, last, chain, yielded, out, handles, writer>>

(***************************************************************************)
(* Bounds of the model.                                                    *)
(***************************************************************************)
MaxAlloc == 3
MaxSlots == 2
MaxStdChain == 2

Addr == 1..MaxAlloc
Slot == 1..MaxSlots

(***************************************************************************)
(* Option<T>: None is the empty sequence, Some(x) the one-element one.     *)
(***************************************************************************)
None == <<>>
Some(x) == <<x>>
IsSome(o) == Len(o) = 1
Unwrap(o) == o[1]

(***************************************************************************)
(* The values that enter the library.                                      *)
(***************************************************************************)
Sep == <<":", " ">>

\* Concrete std errors: a type and the text its Display impl writes.
IoError == [ty |-> "IoError", text |-> <<"i", "o">>]
ParseError == [ty |-> "ParseError", text |-> <<"p", "\n", "q">>]

\* A concrete error with the errors it names through source(): a chain of n
\* errors that ends in an IoError, each ParseError caused by an IoError and
\* the other way round.
StdChain(n) == [k \in 1..n |-> IF (n - k) % 2 = 0 THEN IoError ELSE ParseError]
StdChains == {StdChain(n) : n \in 1..MaxStdChain}

\* Traces: none, one the library captured (numbered by capture), or one the
\* concrete error brought with it and hands out through provide().
NoTrace == [by |-> "none", id |-> 0]
OriginTrace == [by |-> "origin", id |-> 0]
Captured(n) == [by |-> "anyhow", id |-> n]

\* A concrete std error value: its chain and the trace it provides, if any.
StdErrors == [error : StdChains, ebt : {NoTrace, OriginTrace}]

\* Ad-hoc messages (Display + Debug) and context values (Display).
Messages == { <<"m">> }
Contexts == { <<"c">>, <<"d", "\n", "e">> }
Values == { "v1", "v2" }

\* The types a caller can name in downcast::<U>().
Types == { "Str", "IoError", "ParseError", "BoxDyn" }

(***************************************************************************)
(* The heap block of one container, ErrorImpl<E>: the vtable (its type     *)
(* identity token), the optional backtrace and the payload _object.  The   *)
(* payload is one of MessageError<M>, DisplayError<M>, BoxedError, a       *)
(* concrete std error E, ContextError<C, E> or ContextError<C, Error>.     *)
(*   msg   : M of MessageError / DisplayError, C of ContextError           *)
(*   error : the concrete error E with its sources (Std, Boxed, Context)   *)
(*   ebt   : the trace E provides                                          *)
(*   inner : the address the Error inside ContextError<C, Error> owns      *)
(*   log   : what the release of the block did, in order                   *)
(***************************************************************************)
Unalloc ==
    [status |-> "unalloc", vtable |-> "", backtrace |-> NoTrace, kind |-> "",
     msg |-> <<>>, error |-> <<>>, ebt |-> NoTrace, inner |-> 0, log |-> <<>>]

Block(vt, bt, k, m, e, ebt, in) ==
    [status |-> "live", vtable |-> vt, backtrace |-> bt, kind |-> k,
     msg |-> m, error |-> e, ebt |-> ebt, inner |-> in, log |-> <<>>]

\* A borrowed &dyn StdError: the payload object of a block (idx 0) or the
\* idx-th error of the concrete chain stored in it.
Obj(a, i) == [addr |-> a, idx |-> i]

(***************************************************************************)
(* ptr.rs: Own, Ref.                                                       *)
(***************************************************************************)
\* Own::new(Box<T>): the address of a fresh allocation holding the block.
FreshAddr(h) == CHOOSE a \in Addr : h[a].status = "unalloc" /\ \A b \in Addr : h[b].status = "unalloc" => a <= b

Own_new(h, block) == [heap |-> [h EXCEPT ![FreshAddr(h)] = block], ptr |-> FreshAddr(h)]

\* Own::by_ref: a shared borrowed handle to the same address.
Own_by_ref(a) == a

\* A mis-written boxed(): the block is never handed to the allocator.
Own_boxed_leak(h, a) == h

\* Own::boxed: the block as a Box again, whose drop returns it to the allocator.
Own_boxed(h, a) ==
    [h EXCEPT ![a] = [Unalloc EXCEPT !.status = "freed", !.log = h[a].log \o <<"dealloc">>]]

\* Own::by_mut: an exclusive borrowed handle to the same address.
Own_by_mut(a) == a

\* A borrowed handle: Ref<'a, T> or Mut<'a, T>, the raw pointer inside it.
Ref(ptr) == [kind |-> "Ref", ptr |-> ptr]
Mut(ptr) == [kind |-> "Mut", ptr |-> ptr]

\* A mis-written Clone for Ref: the impl for Mut, pasted.
Ref_clone_mut(r) == Mut(r.ptr)

\* impl Copy / Clone for Ref: *self.
Ref_clone(r) == r

\* Ref::by_mut(self): an exclusive handle with the pointer of the shared one.
Ref_by_mut(r) == Mut(r.ptr)

\* impl Copy / Clone for Mut: *self.
Mut_clone(m) == m

\* Mut::by_ref(self): a shared handle with the pointer of the exclusive one.
Mut_by_ref(m) == Ref(m.ptr)

\* Mut::extend(self): the same pointer under another lifetime.
Mut_extend(m) == Mut(m.ptr)

\* A mis-written read(): only the type comes out, the fields are left behind.
Mut_read_stale(h, a) == [ty |-> h[a].vtable, msg |-> <<>>, error |-> <<>>, ebt |-> NoTrace]

\* Mut::read: the payload moved out of the block, by value.
Mut_read(h, a) ==
    [ty |-> h[a].vtable, msg |-> h[a].msg, error |-> h[a].error, ebt |-> h[a].ebt]

(***************************************************************************)
(* StdError::source of each payload type, and Display.                     *)
(***************************************************************************)
\* wrapper.rs: impl StdError for MessageError<M> {} -- the default source().
MessageError_source(h, a) == None

\* wrapper.rs: impl StdError for DisplayError<M> {}.
DisplayError_source(h, a) == None

\* A concrete error's own source(): the next error of its chain.
Std_source(h, a, i) ==
    IF i < Len(h[a].error) THEN Some(Obj(a, i + 1)) ELSE None

\* wrapper.rs: BoxedError::source is self.0.source().
BoxedError_source(h, a) == Std_source(h, a, 1)

\* ErrorImpl::error(this): the payload as a &dyn StdError.
ErrorImpl_error(a) == Obj(a, 0)

\* A mis-written source(): the context passes on the source of the error it
\* wraps, self.error.source(), and the wrapped error itself is skipped.
ContextError_source_skip(h, a) ==
    IF h[a].kind = "ContextStd" THEN Std_source(h, a, 1)
    ELSE IF h[h[a].inner].kind \in {"Std", "Boxed"} THEN Std_source(h, h[a].inner, 1)
    ELSE IF h[h[a].inner].kind = "ContextStd" THEN Some(Obj(h[a].inner, 1))
    ELSE IF h[h[a].inner].kind = "ContextErr"
    THEN Some(ErrorImpl_error(h[h[a].inner].inner))
    ELSE None

\* context.rs: ContextError<C, E>::source is Some(&self.error);
\* ContextError<C, Error>::source is Some(ErrorImpl::error(self.error.inner.by_ref())).
ContextError_source(h, a) ==
    IF h[a].kind = "ContextStd" THEN Some(Obj(a, 1))
    ELSE Some(ErrorImpl_error(Own_by_ref(h[a].inner)))

\* dyn StdError::source, dispatched on what the reference points at.
source(h, r) ==
    IF r.idx > 0 THEN Std_source(h, r.addr, r.idx)
    ELSE CASE h[r.addr].kind = "Message" -> MessageError_source(h, r.addr)
           [] h[r.addr].kind = "Display" -> DisplayError_source(h, r.addr)
           [] h[r.addr].kind = "Boxed" -> BoxedError_source(h, r.addr)
           [] h[r.addr].kind = "Std" -> Std_source(h, r.addr, 1)
           [] h[r.addr].kind \in {"ContextStd", "ContextErr"} -> ContextError_source(h, r.addr)

\* wrapper.rs: Display for MessageError is Display of self.0.
MessageError_fmt(h, a) == h[a].msg

\* A mis-written Display: DisplayError shows its message the way Debug does.
DisplayError_fmt_quoted(h, a) == <<"\"">> \o h[a].msg \o <<"\"">>

\* wrapper.rs: Display for DisplayError is Display of self.0.
DisplayError_fmt(h, a) == h[a].msg

\* wrapper.rs: Display for BoxedError is Display of the boxed error.
BoxedError_fmt(h, a) == h[a].error[1].text

\* context.rs: Display for ContextError is Display of self.context.
ContextError_fmt(h, a) == h[a].msg

\* Display of a &dyn StdError.
Display(h, r) ==
    IF r.idx > 0 THEN h[r.addr].error[r.idx].text
    ELSE CASE h[r.addr].kind = "Message" -> MessageError_fmt(h, r.addr)
           [] h[r.addr].kind = "Display" -> DisplayError_fmt(h, r.addr)
           [] h[r.addr].kind = "Boxed" -> BoxedError_fmt(h, r.addr)
           [] h[r.addr].kind = "Std" -> h[r.addr].error[1].text
           [] h[r.addr].kind \in {"ContextStd", "ContextErr"} -> ContextError_fmt(h, r.addr)

(***************************************************************************)
(* chain.rs: the causal-chain cursor.                                      *)
(*   Linked   { next: Option<&dyn StdError> }                              *)
(*   Buffered { rest: vec::IntoIter<&dyn StdError> }                       *)
(***************************************************************************)
Linked(next) == [state |-> "Linked", next |-> next, rest |-> <<>>]
Buffered(rest) == [state |-> "Buffered", next |-> None, rest |-> rest]

\* Chain::new(head).
Chain_new(head) == Linked(Some(head))

\* A mis-written default(): a vector of one element, not an empty one.
Chain_default_one == Buffered(<<Obj(1, 0)>>)

\* Chain::default(): buffered, over an empty vector.
Chain_default == Buffered(<<>>)

\* The loop of next_back: while let Some(cause) = next { next = cause.source(); rest.push(cause) }.
RECURSIVE CollectRest(_, _)
CollectRest(h, next) ==
    IF next = None THEN <<>>
    ELSE <<Unwrap(next)>> \o CollectRest(h, source(h, Unwrap(next)))

\* A mis-written next(): the first forward step collects the rest of the chain
\* into a vector, as the first backward step does.
Chain_next_buffers(h, c) ==
    IF c.state = "Linked"
    THEN IF c.next = None THEN [item |-> None, chain |-> c]
         ELSE LET error == Unwrap(c.next)
              IN  [item |-> Some(error),
                   chain |-> Buffered(CollectRest(h, source(h, error)))]
    ELSE IF c.rest = <<>> THEN [item |-> None, chain |-> c]
         ELSE [item |-> Some(Head(c.rest)), chain |-> Buffered(Tail(c.rest))]

\* Iterator::next: the item returned and the cursor afterwards.
Chain_next(h, c) ==
    IF c.state = "Linked"
    THEN IF c.next = None THEN [item |-> None, chain |-> c]
         ELSE LET error == Unwrap(c.next)
              IN  [item |-> Some(error), chain |-> Linked(source(h, error))]
    ELSE IF c.rest = <<>> THEN [item |-> None, chain |-> c]
         ELSE [item |-> Some(Head(c.rest)), chain |-> Buffered(Tail(c.rest))]

\* A mis-written next_back(): the buffer is rebuilt from the head of the vector
\* it was served from, so the item just returned stays in it.
Chain_next_back_keep(h, c) ==
    LET rest == IF c.state = "Linked" THEN CollectRest(h, c.next) ELSE c.rest
    IN  IF rest = <<>> THEN [item |-> None, chain |-> Buffered(rest)]
        ELSE [item |-> Some(rest[Len(rest)]), chain |-> Buffered(rest)]

\* DoubleEndedIterator::next_back.
Chain_next_back(h, c) ==
    LET rest == IF c.state = "Linked" THEN CollectRest(h, c.next) ELSE c.rest
    IN  IF rest = <<>> THEN [item |-> None, chain |-> Buffered(rest)]
        ELSE [item |-> Some(rest[Len(rest)]),
              chain |-> Buffered(SubSeq(rest, 1, Len(rest) - 1))]

\* The loop of len: while let Some(cause) = next { next = cause.source(); len += 1 }.
RECURSIVE CountRest(_, _)
CountRest(h, next) ==
    IF next = None THEN 0 ELSE 1 + CountRest(h, source(h, Unwrap(next)))

\* A mis-written len(): the count starts after the item the cursor stands on.
Chain_len_short(h, c) ==
    IF c.state = "Linked"
    THEN IF c.next = None THEN 0 ELSE CountRest(h, source(h, Unwrap(c.next)))
    ELSE Len(c.rest)

\* ExactSizeIterator::len.
Chain_len(h, c) ==
    IF c.state = "Linked" THEN CountRest(h, c.next) ELSE Len(c.rest)

\* Iterator::size_hint: (len, Some(len)).
Chain_size_hint(h, c) == <<Chain_len(h, c), Some(Chain_len(h, c))>>

(***************************************************************************)
(* The trace of a container: the stored one, else the one the payload      *)
(* provides.  context.rs: ContextError::provide passes the request to the  *)
(* error it wraps.                                                         *)
(***************************************************************************)
RECURSIVE ErrorImpl_backtrace(_, _)
ContextError_provide(h, a) ==
    IF h[a].kind = "ContextStd" THEN h[a].ebt
    ELSE ErrorImpl_backtrace(h, h[a].inner)

\* wrapper.rs: BoxedError::provide is self.0.provide(request).
BoxedError_provide(h, a) == h[a].ebt

provide(h, a) ==
    CASE h[a].kind \in {"ContextStd", "ContextErr"} -> ContextError_provide(h, a)
      [] h[a].kind = "Boxed" -> BoxedError_provide(h, a)
      [] h[a].kind = "Std" -> h[a].ebt
      [] OTHER -> NoTrace

ErrorImpl_backtrace(h, a) ==
    IF h[a].backtrace # NoTrace THEN h[a].backtrace ELSE provide(h, a)

(***************************************************************************)
(* fmt.rs: Indented, ErrorImpl::display, ErrorImpl::debug.                 *)
(***************************************************************************)
NumberWidth == 5

DigitChar(d) == <<"0", "1", "2", "3", "4", "5", "6", "7", "8", "9">>[d + 1]

RECURSIVE Digits(_)
Digits(n) == IF n < 10 THEN <<DigitChar(n)>> ELSE Digits(n \div 10) \o <<DigitChar(n % 10)>>

Spaces(n) == [i \in 1..n |-> " "]

\* format!("{: >5}", number): right-aligned, padded with spaces to the width.
PadLeft(s, w) == IF Len(s) >= w THEN s ELSE Spaces(w - Len(s)) \o s

\* str::split('\n').
RECURSIVE Split(_)
Split(s) ==
    IF \A k \in 1..Len(s) : s[k] # "\n" THEN <<s>>
    ELSE LET k == CHOOSE i \in 1..Len(s) : s[i] = "\n" /\ \A j \in 1..(i - 1) : s[j] # "\n"
         IN  <<SubSeq(s, 1, k - 1)>> \o Split(SubSeq(s, k + 1, Len(s)))

\* Indented { inner, number, started }.
Indented(inner, number, started) == [inner |-> inner, number |-> number, started |-> started]

\* A mis-written loop: the test i > 0 is missing, so the first piece of a
\* later call starts a line of its own.
Indented_line_breaks(w, i, line) ==
    IF ~w.started
    THEN Indented(w.inner
                    \o (IF IsSome(w.number)
                        THEN PadLeft(Digits(Unwrap(w.number)), NumberWidth) \o <<":", " ">>
                        ELSE Spaces(4))
                    \o line,
                  w.number, TRUE)
    ELSE Indented(w.inner \o <<"\n">>
                    \o (IF IsSome(w.number) THEN Spaces(7) ELSE Spaces(4))
                    \o line,
                  w.number, TRUE)

\* One turn of the loop of write_str, for line number i of the split.
Indented_line(w, i, line) ==
    IF ~w.started
    THEN Indented(w.inner
                    \o (IF IsSome(w.number)
                        THEN PadLeft(Digits(Unwrap(w.number)), NumberWidth) \o <<":", " ">>
                        ELSE Spaces(4))
                    \o line,
                  w.number, TRUE)
    ELSE IF i > 0
    THEN Indented(w.inner \o <<"\n">>
                    \o (IF IsSome(w.number) THEN Spaces(7) ELSE Spaces(4))
                    \o line,
                  w.number, TRUE)
    ELSE Indented(w.inner \o line, w.number, TRUE)

RECURSIVE Indented_lines(_, _, _)
Indented_lines(w, lines, i) ==
    IF i >= Len(lines) THEN w
    ELSE Indented_lines(Indented_line(w, i, lines[i + 1]), lines, i + 1)

\* Indented::write_str.
Indented_write_str(w, s) == Indented_lines(w, Split(s), 0)

\* Error::chain / ErrorImpl::chain: Chain::new(Self::error(this)).
ErrorImpl_chain(a) == Chain_new(ErrorImpl_error(a))

\* A mis-written loop: write!(f, "{}: ", cause), the separator after the text.
RECURSIVE DisplayCauses_trailing(_, _)
DisplayCauses_trailing(h, c) ==
    LET r == Chain_next(h, c)
    IN  IF r.item = None THEN <<>>
        ELSE Display(h, Unwrap(r.item)) \o Sep \o DisplayCauses_trailing(h, r.chain)

\* for cause in chain { write!(f, ": {}", cause) }
RECURSIVE DisplayCauses(_, _)
DisplayCauses(h, c) ==
    LET r == Chain_next(h, c)
    IN  IF r.item = None THEN <<>>
        ELSE Sep \o Display(h, Unwrap(r.item)) \o DisplayCauses(h, r.chain)

\* A mis-written display(): the chain is walked without skip(1).
ErrorImpl_display_noskip(h, a, alternate) ==
    Display(h, ErrorImpl_error(a))
        \o (IF alternate THEN DisplayCauses(h, ErrorImpl_chain(a)) ELSE <<>>)

\* ErrorImpl::display(this, f), with alternate = f.alternate().
ErrorImpl_display(h, a, alternate) ==
    Display(h, ErrorImpl_error(a))
        \o (IF alternate
            THEN DisplayCauses(h, Chain_next(h, ErrorImpl_chain(a)).chain)
            ELSE <<>>)

\* for (n, error) in Chain::new(cause).enumerate() { writeln!(f); write!(indented, "{}", error) }
RECURSIVE DebugCauses(_, _, _, _)
DebugCauses(h, c, n, multiple) ==
    LET r == Chain_next(h, c)
    IN  IF r.item = None THEN <<>>
        ELSE <<"\n">>
             \o Indented_write_str(
                    Indented(<<>>, IF multiple THEN Some(n) ELSE None, FALSE),
                    Display(h, Unwrap(r.item))).inner
             \o DebugCauses(h, r.chain, n + 1, multiple)

\* Backtrace::to_string of the trace facility: an older toolchain's text
\* starts with "stack backtrace:", a newer one's does not.
StackPrefix == <<"s", "t", "a", "c", "k", " ", "b", "a", "c", "k", "t", "r", "a", "c", "e", ":">>
BacktraceText(bt) ==
    IF bt.by = "origin" THEN StackPrefix \o <<"\n", "f", "\n">>
    ELSE <<"f", Head(Digits(bt.id)), "\n", " ">>

StartsWith(s, p) == Len(s) >= Len(p) /\ SubSeq(s, 1, Len(p)) = p

\* str::trim_end.
RECURSIVE TrimEnd(_)
TrimEnd(s) ==
    IF s # <<>> /\ s[Len(s)] \in {" ", "\n"} THEN TrimEnd(SubSeq(s, 1, Len(s) - 1)) ELSE s

\* The trace section of debug().
DebugBacktrace(bt) ==
    IF bt.by = "none" THEN <<>>
    ELSE LET text == BacktraceText(bt)
         IN  <<"\n", "\n">>
             \o (IF StartsWith(text, StackPrefix)
                 THEN TrimEnd(<<"S">> \o Tail(text))
                 ELSE <<"S">> \o Tail(StackPrefix) \o <<"\n">> \o TrimEnd(text))

CausedBy == <<"\n", "\n", "C", "a", "u", "s", "e", "d", " ", "b", "y", ":">>

\* A mis-written debug(): every cause is numbered, a single one too.
ErrorImpl_debug_numbered(h, a) ==
    LET error == ErrorImpl_error(a)
        cause == source(h, error)
    IN  Display(h, error)
        \o (IF IsSome(cause)
            THEN CausedBy \o DebugCauses(h, Chain_new(Unwrap(cause)), 0, TRUE)
            ELSE <<>>)
        \o DebugBacktrace(ErrorImpl_backtrace(h, a))

\* ErrorImpl::debug(this, f) for a formatter without the alternate flag.
ErrorImpl_debug(h, a) ==
    LET error == ErrorImpl_error(a)
        cause == source(h, error)
    IN  Display(h, error)
        \o (IF IsSome(cause)
            THEN CausedBy
                 \o DebugCauses(h, Chain_new(Unwrap(cause)), 0,
                                IsSome(source(h, Unwrap(cause))))
            ELSE <<>>)
        \o DebugBacktrace(ErrorImpl_backtrace(h, a))

(***************************************************************************)
(* kind.rs: the resolution of anyhow!(expr), (&error).anyhow_kind().       *)
(* An input is described by the impls its type has.                        *)
(***************************************************************************)
\* What the caller hands to anyhow!: a message, a concrete error or a
\* Box<dyn StdError + Send + Sync> (an Error itself is handled apart).
MessageInput(m) == [shape |-> "message", ty |-> "Str", msg |-> m, error |-> <<>>, ebt |-> NoTrace]
StdInput(e) == [shape |-> "std", ty |-> e.error[1].ty, msg |-> <<>>, error |-> e.error, ebt |-> e.ebt]
BoxedInput(e) == [shape |-> "boxed", ty |-> "BoxDyn", msg |-> <<>>, error |-> e.error, ebt |-> e.ebt]

Inputs ==
    {MessageInput(m) : m \in Messages}
        \cup {StdInput(e) : e \in StdErrors}
        \cup {BoxedInput(e) : e \in StdErrors}

\* What Display writes for an input.
InputText(in) == IF in.shape = "message" THEN in.msg ELSE in.error[1].text

\* T: Display + Debug + Send + Sync + 'static (impl AdhocKind for &T).
ImplDisplayDebug(shape) == shape \in {"message", "std", "boxed", "error"}
\* E: Into<Error> (impl TraitKind for E): std errors through From, Error itself.
ImplIntoError(shape) == shape \in {"std", "error"}
\* The type is Box<dyn StdError + Send + Sync> (impl BoxedKind).
IsBoxDyn(shape) == shape = "boxed"

\* A mis-written resolution: AdhocKind implemented for T, not for &T, so that it
\* is found at the same step as TraitKind and BoxedKind and taken first.
anyhow_kind_flat(shape) ==
    IF ImplDisplayDebug(shape) THEN "Adhoc"
    ELSE IF ImplIntoError(shape) THEN "Trait"
    ELSE IF IsBoxDyn(shape) THEN "Boxed"
    ELSE "unresolved"

\* Method resolution of (&error).anyhow_kind(): the receiver &T is tried by
\* value first, where TraitKind (Self = T) and BoxedKind (Self = Box<dyn ..>)
\* take &self; AdhocKind (Self = &T) needs one more autoref and is tried next.
anyhow_kind(shape) ==
    LET byValue == {k \in {"Trait", "Boxed"} :
                       \/ k = "Trait" /\ ImplIntoError(shape)
                       \/ k = "Boxed" /\ IsBoxDyn(shape)}
        autoref == {k \in {"Adhoc"} : ImplDisplayDebug(shape)}
    IN  IF Cardinality(byValue) = 1 THEN CHOOSE k \in byValue : TRUE
        ELSE IF byValue = {} /\ autoref # {} THEN "Adhoc"
        ELSE "unresolved"

(***************************************************************************)
(* The trace facility and the constructors of the container.               *)
(***************************************************************************)
\* backtrace!(): Some(Backtrace::capture()).
backtrace(caps) == [bt |-> Captured(caps + 1), captures |-> caps + 1]

\* backtrace_if_absent!(err): None when err provides a trace, else backtrace!().
backtrace_if_absent(provided, caps) ==
    IF provided # NoTrace THEN [bt |-> NoTrace, captures |-> caps]
    ELSE backtrace(caps)

\* Error::from_adhoc(message, backtrace): the payload is MessageError(message).
Error_from_adhoc(h, in, bt) ==
    Own_new(h, Block(in.ty, bt, "Message", InputText(in), <<>>, NoTrace, 0))

\* Error::from_display(message, backtrace): the payload is DisplayError(message).
Error_from_display(h, message, bt) ==
    Own_new(h, Block("Str", bt, "Display", message, <<>>, NoTrace, 0))

\* Error::from_std(error, backtrace): the payload is the error itself.
Error_from_std(h, e, bt) ==
    Own_new(h, Block(e.error[1].ty, bt, "Std", <<>>, e.error, e.ebt, 0))

\* Error::from_boxed(error, backtrace): the payload is BoxedError(error).
Error_from_boxed(h, e, bt) ==
    Own_new(h, Block("BoxDyn", bt, "Boxed", <<>>, e.error, e.ebt, 0))

\* Error::from_context(context, error, backtrace): ContextError { context, error }.
Error_from_context(h, context, e, bt) ==
    Own_new(h, Block("ContextError", bt, "ContextStd", context, e.error, e.ebt, 0))

\* Error::context(self, context): ContextError { context, error: self }, with no
\* trace of its own (the error wrapped is an Error and has one).
Error_context(h, a, context) ==
    Own_new(h, Block("ContextError", NoTrace, "ContextErr", context, <<>>, NoTrace, a))

\* kind.rs: Adhoc::new is Error::from_adhoc(message, backtrace!()).
Adhoc_new(h, caps, in) ==
    LET b == backtrace(caps)
    IN  [own |-> Error_from_adhoc(h, in, b.bt), captures |-> b.captures]

\* kind.rs: Trait::new is error.into(), for a std error
\* Error::from_std(error, backtrace_if_absent!(error)).
Trait_new(h, caps, in) ==
    LET b == backtrace_if_absent(in.ebt, caps)
    IN  [own |-> Error_from_std(h, in, b.bt), captures |-> b.captures]

\* kind.rs: Boxed::new is Error::from_boxed(error, backtrace_if_absent!(&*error)).
Boxed_new(h, caps, in) ==
    LET b == backtrace_if_absent(in.ebt, caps)
    IN  [own |-> Error_from_boxed(h, in, b.bt), captures |-> b.captures]

\* A mis-written ext_context: a trace is captured whatever the error provides.
ext_context_recapture(h, caps, e, context) ==
    LET b == backtrace(caps)
    IN  [own |-> Error_from_context(h, context, e, b.bt), captures |-> b.captures]

\* context.rs: ext_context of a std error.
ext_context(h, caps, e, context) ==
    LET b == backtrace_if_absent(e.ebt, caps)
    IN  [own |-> Error_from_context(h, context, e, b.bt), captures |-> b.captures]

\* context.rs: ext_context of an Error is self.context(context).
ext_context_error(h, caps, a, context) ==
    [own |-> Error_context(h, a, context), captures |-> caps]

(***************************************************************************)
(* Downcast and drop through the vtable.                                   *)
(***************************************************************************)
\* object_downcast: the address of the payload when the token matches.
object_downcast(h, a, target) ==
    IF h[a].vtable = target THEN Some(a) ELSE None

\* object_drop_rest: the block is released with the payload already moved out.
object_drop_rest(h, a) ==
    Own_boxed([h EXCEPT ![a].log = @ \o <<"object_drop_rest">>], a)

\* object_drop: the payload's destructor runs (an Error inside it is dropped
\* in turn), then the block is released.
RECURSIVE object_drop(_, _)
object_drop(h, a) ==
    LET h1 == [h EXCEPT ![a].log = @ \o <<"object_drop">>]
        h2 == IF h[a].kind = "ContextErr" THEN object_drop(h1, h[a].inner) ELSE h1
    IN  Own_boxed(h2, a)

\* Error::downcast::<target>(self): on a match the payload is read out and the
\* rest of the block released; on a mismatch the handle comes back as it was.
Error_downcast(h, a, target) ==
    LET addr == object_downcast(h, a, target)
    IN  IF addr = None
        THEN [ok |-> FALSE, payload |-> None, heap |-> h]
        ELSE [ok |-> TRUE, payload |-> Some(Mut_read(h, Unwrap(addr))),
              heap |-> object_drop_rest(h, a)]

(***************************************************************************)
(* The state: the heap, the caller's variables that hold an Error (slots), *)
(* the number of traces captured, what each live container was built from  *)
(* (origin), the shared borrowed handles in use (refs), a record of the    *)
(* latest call (last), the chain cursor with what it has returned          *)
(* (chain, yielded) and the latest rendering (out).                        *)
(***************************************************************************)
NoCall ==
    [op |-> "none", recv |-> "", lazy |-> FALSE, kind |-> "", shape |-> "", addr |-> 0,
     inner |-> 0, given |-> None, value |-> None, payload |-> None, expected |-> None, ctx |-> <<>>,
     input |-> None, text |-> <<>>, items |-> <<>>, cause |-> FALSE, trace |-> NoTrace,
     caps |-> 0, allocs |-> 0, thunk |-> 0, want |-> ""]

NoYield ==
    [head |-> None, front |-> <<>>, back |-> <<>>, op |-> "none", ret |-> None,
     len |-> 0, hint |-> <<0, None>>]
NoOut == [op |-> "none", addr |-> 0, alternate |-> FALSE, text |-> <<>>]
NoHandles == [live |-> <<>>, linear |-> TRUE, op |-> "none"]
NoWriter ==
    [open |-> FALSE, inner |-> <<>>, number |-> None, started |-> FALSE,
     given |-> <<>>, calls |-> 0]

Init ==
    /\ heap = [a \in Addr |-> Unalloc]
    /\ slots = [i \in Slot |-> 0]
    /\ captures = 0
    /\ origin = [a \in Addr |-> None]
    /\ refs = {}
    /\ last = NoCall
    /\ chain = None
    /\ yielded = NoYield
    /\ out = NoOut
    /\ handles = NoHandles
    /\ writer = NoWriter

Allocated(h) == {a \in Addr : h[a].status # "unalloc"}
Live(h) == {a \in Addr : h[a].status = "live"}
HasFree(h) == \E a \in Addr : h[a].status = "unalloc"
Movable(i) == slots[i] # 0 /\ slots[i] \notin refs

\* The origin of the blocks still live.
Kept(h, o) == [a \in Addr |-> IF h[a].status = "live" THEN o[a] ELSE None]

\* The payload an input becomes.
PayloadOf(in) == [ty |-> in.ty, msg |-> in.msg, error |-> in.error, ebt |-> in.ebt]

\* The texts of the chain of the container at a, by the cursor.
RECURSIVE ChainTexts(_, _)
ChainTexts(h, c) ==
    LET r == Chain_next(h, c)
    IN  IF r.item = None THEN <<>>
        ELSE <<Display(h, Unwrap(r.item))>> \o ChainTexts(h, r.chain)

(***************************************************************************)
(* anyhow!(expr): (&error).anyhow_kind().new(error).                       *)
(***************************************************************************)
New(in, j) ==
    /\ HasFree(heap)
    /\ slots[j] = 0
    /\ anyhow_kind(in.shape) # "unresolved"
    /\ LET kind == anyhow_kind(in.shape)
           r == CASE kind = "Adhoc" -> Adhoc_new(heap, captures, in)
                  [] kind = "Trait" -> Trait_new(heap, captures, in)
                  [] kind = "Boxed" -> Boxed_new(heap, captures, in)
       IN  /\ heap' = r.own.heap
           /\ slots' = [slots EXCEPT ![j] = r.own.ptr]
           /\ captures' = r.captures
           /\ origin' = [origin EXCEPT ![r.own.ptr] = Some(PayloadOf(in))]
           /\ last' = [NoCall EXCEPT !.op = "new", !.kind = kind, !.shape = in.shape,
                                     !.addr = r.own.ptr, !.input = Some(in),
                                     !.trace = in.ebt, !.caps = captures]
    /\ UNCHANGED <<refs, chain, yielded, out, handles, writer>>

\* anyhow!(error) for an Error: Trait::new, error.into(), the same container.
NewFromError(i) ==
    /\ Movable(i)
    /\ anyhow_kind("error") = "Trait"
    /\ last' = [NoCall EXCEPT !.op = "new", !.kind = anyhow_kind("error"), !.shape = "error",
                              !.addr = slots[i], !.caps = captures]
    /\ UNCHANGED <<heap, slots, captures, origin, refs, chain, yielded, out, handles, writer>>

(***************************************************************************)
(* context.rs: Context for Result<T, E> and for Option<T>.                 *)
(***************************************************************************)
\* A mis-written with_context: the closure is called before the match.
thunk_calls_eager(lazy, failure) == IF lazy THEN 1 ELSE 0

\* How often the closure of with_context is called: context() stands in the
\* Err / None arm only.
thunk_calls(lazy, failure) == IF lazy /\ failure THEN 1 ELSE 0

ContextCall(recv, lazy, c) ==
    [NoCall EXCEPT !.op = "context", !.recv = recv, !.lazy = lazy, !.ctx = c,
                   !.caps = captures, !.allocs = Cardinality(Allocated(heap))]

\* Ok(ok) => Ok(ok) and Some(ok) => Ok(ok).
OkArm(recv, lazy) ==
    /\ \E v \in Values :
           last' = [ContextCall(recv, lazy, <<>>) EXCEPT !.given = Some(v), !.value = Some(v),
                                                         !.thunk = thunk_calls(lazy, FALSE)]
    /\ UNCHANGED <<heap, slots, captures, origin, refs, chain, yielded, out, handles, writer>>

\* Err(error) => Err(error.ext_context(context)), error a std error.
ErrStdArm(lazy, j) ==
    /\ HasFree(heap)
    /\ \E e \in StdErrors, c \in Contexts :
           /\ slots[j] = 0
           /\ LET r == ext_context(heap, captures, e, c)
              IN  /\ heap' = r.own.heap
                  /\ slots' = [slots EXCEPT ![j] = r.own.ptr]
                  /\ captures' = r.captures
                  /\ last' = [ContextCall("ErrStd", lazy, c) EXCEPT
                                  !.addr = r.own.ptr, !.input = Some(e),
                                  !.text = e.error[1].text, !.cause = Len(e.error) > 1,
                                  !.items = [k \in 1..Len(e.error) |-> e.error[k].text],
                                  !.trace = e.ebt, !.thunk = thunk_calls(lazy, TRUE)]
    /\ UNCHANGED <<origin, refs, chain, yielded, out, handles, writer>>

\* Err(error) => Err(error.ext_context(context)), error an Error.
ErrErrorArm(lazy, i) ==
    /\ HasFree(heap)
    /\ \E c \in Contexts :
           /\ Movable(i)
           /\ LET r == ext_context_error(heap, captures, slots[i], c)
              IN  /\ heap' = r.own.heap
                  /\ slots' = [slots EXCEPT ![i] = r.own.ptr]
                  /\ captures' = r.captures
                  /\ last' = [ContextCall("ErrError", lazy, c) EXCEPT
                                  !.addr = r.own.ptr, !.inner = slots[i],
                                  !.text = ErrorImpl_display(heap, slots[i], FALSE),
                                  !.cause = IsSome(source(heap, ErrorImpl_error(slots[i]))),
                                  !.items = ChainTexts(heap, ErrorImpl_chain(slots[i])),
                                  !.trace = ErrorImpl_backtrace(heap, slots[i]),
                                  !.thunk = thunk_calls(lazy, TRUE)]
    /\ UNCHANGED <<origin, refs, chain, yielded, out, handles, writer>>

\* None => Err(Error::from_display(context, backtrace!())).
NoneArm(lazy, j) ==
    /\ HasFree(heap)
    /\ \E c \in Contexts :
           /\ slots[j] = 0
           /\ LET b == backtrace(captures)
                  own == Error_from_display(heap, c, b.bt)
              IN  /\ heap' = own.heap
                  /\ slots' = [slots EXCEPT ![j] = own.ptr]
                  /\ captures' = b.captures
                  /\ origin' = [origin EXCEPT ![own.ptr] =
                                    Some([ty |-> "Str", msg |-> c, error |-> <<>>, ebt |-> NoTrace])]
                  /\ last' = [ContextCall("None", lazy, c) EXCEPT
                                  !.addr = own.ptr, !.thunk = thunk_calls(lazy, TRUE)]
    /\ UNCHANGED <<refs, chain, yielded, out, handles, writer>>

\* context.rs: Result<T, E>::context, with the variable the result goes to.
Result_context(j) == OkArm("Ok", FALSE) \/ ErrStdArm(FALSE, j) \/ ErrErrorArm(FALSE, j)

\* context.rs: Result<T, E>::with_context.
Result_with_context(j) == OkArm("Ok", TRUE) \/ ErrStdArm(TRUE, j) \/ ErrErrorArm(TRUE, j)

\* context.rs: Option<T>::context.
Option_context(j) == OkArm("Some", FALSE) \/ NoneArm(FALSE, j)

\* context.rs: Option<T>::with_context.
Option_with_context(j) == OkArm("Some", TRUE) \/ NoneArm(TRUE, j)

(***************************************************************************)
(* Move, downcast, drop and borrow of a container.                         *)
(***************************************************************************)
Move(i, j) ==
    /\ Movable(i)
    /\ slots[j] = 0
    /\ slots' = [slots EXCEPT ![i] = 0, ![j] = slots[i]]
    /\ last' = [NoCall EXCEPT !.op = "move", !.addr = slots[i]]
    /\ UNCHANGED <<heap, captures, origin, refs, chain, yielded, out, handles, writer>>

Downcast(i, target) ==
    /\ Movable(i)
    /\ LET a == slots[i]
           r == Error_downcast(heap, a, target)
       IN  /\ heap' = r.heap
           /\ slots' = [slots EXCEPT ![i] = IF r.ok THEN 0 ELSE a]
           /\ origin' = Kept(r.heap, origin)
           /\ last' = [NoCall EXCEPT !.op = "downcast", !.want = target, !.addr = a,
                                     !.payload = r.payload, !.expected = origin[a],
                                     !.text = ErrorImpl_display(heap, a, FALSE),
                                     !.items = ChainTexts(heap, ErrorImpl_chain(a)),
                                     !.trace = ErrorImpl_backtrace(heap, a)]
    /\ UNCHANGED <<captures, refs, chain, yielded, out, handles, writer>>

\* Drop for Error: object_drop through the vtable.
Drop(i) ==
    /\ Movable(i)
    /\ heap' = object_drop(heap, slots[i])
    /\ slots' = [slots EXCEPT ![i] = 0]
    /\ origin' = Kept(heap', origin)
    /\ last' = [NoCall EXCEPT !.op = "drop", !.addr = slots[i]]
    /\ UNCHANGED <<captures, refs, chain, yielded, out, handles, writer>>

\* A shared borrowed handle taken from the owner, and given up.
ByRef(i) ==
    /\ slots[i] # 0
    /\ slots[i] \notin refs
    /\ refs' = refs \cup {Own_by_ref(slots[i])}
    /\ last' = [NoCall EXCEPT !.op = "by_ref", !.addr = slots[i]]
    /\ UNCHANGED <<heap, slots, captures, origin, chain, yielded, out, handles, writer>>

EndRef(a) ==
    /\ a \in refs
    /\ refs' = refs \ {a}
    /\ last' = [NoCall EXCEPT !.op = "end_ref", !.addr = a]
    /\ UNCHANGED <<heap, slots, captures, origin, chain, yielded, out, handles, writer>>

Next ==
    \/ \E in \in Inputs, j \in Slot : New(in, j)
    \/ \E j \in Slot : ErrStdArm(FALSE, j)
    \/ \E i \in Slot : ErrErrorArm(FALSE, i)
    \/ \E i, j \in Slot : Move(i, j)
    \/ \E i \in Slot, t \in Types : Downcast(i, t)
    \/ \E i \in Slot : Drop(i)
    \/ \E i \in Slot : ByRef(i)
    \/ \E a \in Addr : EndRef(a)

Spec == Init /\ [][Next]_vars

(***************************************************************************)
(* The calls of the context combinator alone.                              *)
(***************************************************************************)
NextContext ==
    \/ \E in \in Inputs, j \in Slot : New(in, j)
    \/ \E i \in Slot : NewFromError(i)
    \/ \E j \in Slot : Result_context(j)
    \/ \E j \in Slot : Result_with_context(j)
    \/ \E j \in Slot : Option_context(j)
    \/ \E j \in Slot : Option_with_context(j)

SpecContext == Init /\ [][NextContext]_vars

(***************************************************************************)
(* chain.rs: a cursor over the chain of a container that was built and     *)
(* wrapped before; the container stays borrowed while the cursor lives.    *)
(***************************************************************************)
\* The caller keeps one Error, in its first variable.
BuildNew == chain = None /\ \E in \in Inputs : New(in, 1)

BuildContext == chain = None /\ (ErrStdArm(FALSE, 1) \/ ErrErrorArm(FALSE, 1))

\* Error::chain(&self).
ChainNew(i) ==
    /\ chain = None
    /\ slots[i] # 0
    /\ chain' = Some(ErrorImpl_chain(slots[i]))
    /\ yielded' = [NoYield EXCEPT !.head = Some(ErrorImpl_error(slots[i])), !.op = "new"]
    /\ UNCHANGED <<heap, slots, captures, origin, refs, last, out, handles, writer>>

\* Chain::default().
ChainDefault ==
    /\ chain = None
    /\ chain' = Some(Chain_default)
    /\ yielded' = [NoYield EXCEPT !.op = "default"]
    /\ UNCHANGED <<heap, slots, captures, origin, refs, last, out, handles, writer>>

ChainNext ==
    /\ chain # None
    /\ LET r == Chain_next(heap, Unwrap(chain))
       IN  /\ chain' = Some(r.chain)
           /\ yielded' = [yielded EXCEPT !.op = "next", !.ret = r.item,
                                         !.front = @ \o r.item]
    /\ UNCHANGED <<heap, slots, captures, origin, refs, last, out, handles, writer>>

ChainNextBack ==
    /\ chain # None
    /\ LET r == Chain_next_back(heap, Unwrap(chain))
       IN  /\ chain' = Some(r.chain)
           /\ yielded' = [yielded EXCEPT !.op = "next_back", !.ret = r.item,
                                         !.back = @ \o r.item]
    /\ UNCHANGED <<heap, slots, captures, origin, refs, last, out, handles, writer>>

ChainLen ==
    /\ chain # None
    /\ yielded' = [yielded EXCEPT !.op = "len", !.len = Chain_len(heap, Unwrap(chain))]
    /\ UNCHANGED <<heap, slots, captures, origin, refs, last, chain, out, handles, writer>>

ChainSizeHint ==
    /\ chain # None
    /\ yielded' = [yielded EXCEPT !.op = "size_hint",
                                  !.hint = Chain_size_hint(heap, Unwrap(chain))]
    /\ UNCHANGED <<heap, slots, captures, origin, refs, last, chain, out, handles, writer>>

\* The cursor goes out of scope.
ChainDrop ==
    /\ chain # None
    /\ chain' = None
    /\ yielded' = NoYield
    /\ UNCHANGED <<heap, slots, captures, origin, refs, last, out, handles, writer>>

NextChain ==
    \/ BuildNew
    \/ BuildContext
    \/ ChainNew(1)
    \/ ChainDefault
    \/ ChainNext
    \/ ChainNextBack
    \/ ChainLen
    \/ ChainSizeHint
    \/ ChainDrop

SpecChain == Init /\ [][NextChain]_vars

(***************************************************************************)
(* fmt.rs: the renderings of a container that was built and wrapped.       *)
(***************************************************************************)
\* format!("{}", error) and format!("{:#}", error).
RenderDisplay(i, alternate) ==
    /\ slots[i] # 0
    /\ out' = [op |-> "display", addr |-> slots[i], alternate |-> alternate,
               text |-> ErrorImpl_display(heap, slots[i], alternate)]
    /\ UNCHANGED <<heap, slots, captures, origin, refs, last, chain, yielded, handles, writer>>

\* format!("{:?}", error).
RenderDebug(i) ==
    /\ slots[i] # 0
    /\ out' = [op |-> "debug", addr |-> slots[i], alternate |-> FALSE,
               text |-> ErrorImpl_debug(heap, slots[i])]
    /\ UNCHANGED <<heap, slots, captures, origin, refs, last, chain, yielded, handles, writer>>

NextFmt ==
    \/ \E in \in Inputs : New(in, 1)
    \/ ErrStdArm(FALSE, 1)
    \/ ErrErrorArm(FALSE, 1)
    \/ \E alternate \in BOOLEAN : RenderDisplay(1, alternate)
    \/ RenderDebug(1)

SpecFmt == Init /\ [][NextFmt]_vars

(***************************************************************************)
(* ptr.rs: the borrowed handles taken from the owner of one container and  *)
(* made from each other.  Own, Ref and Mut are Copy and their methods take *)
(* self by value, so the receiver of a conversion stays usable: keep says  *)
(* whether the caller goes on using it.  handles.linear records that the   *)
(* call sites so far kept the discipline the raw pointers rely on: an      *)
(* exclusive handle is made only from the owner or from the only handle    *)
(* there is, its receiver is not used again, and no handle is made beside  *)
(* an exclusive one.                                                       *)
(***************************************************************************)
MaxHandles == 3

Kinds(live) == {live[k].kind : k \in 1..Len(live)}

\* The handles after a conversion of the k-th one.
Converted(live, k, keep, new) ==
    IF keep THEN Append(live, new) ELSE [live EXCEPT ![k] = new]

Without(live, k) == SubSeq(live, 1, k - 1) \o SubSeq(live, k + 1, Len(live))

Others == <<heap, slots, captures, origin, refs, last, chain, yielded, out, writer>>

\* self.inner.by_ref()
TakeRef ==
    /\ slots[1] # 0
    /\ Len(handles.live) < MaxHandles
    /\ handles' = [live |-> Append(handles.live, Ref(Own_by_ref(slots[1]))),
                   linear |-> handles.linear /\ "Mut" \notin Kinds(handles.live),
                   op |-> "Own::by_ref"]
    /\ UNCHANGED Others

\* self.inner.by_mut()
TakeMut ==
    /\ slots[1] # 0
    /\ Len(handles.live) < MaxHandles
    /\ handles' = [live |-> Append(handles.live, Mut(Own_by_mut(slots[1]))),
                   linear |-> handles.linear /\ handles.live = <<>>,
                   op |-> "Own::by_mut"]
    /\ UNCHANGED Others

\* A copy of a shared handle.
CloneRef(k) ==
    /\ k \in 1..Len(handles.live)
    /\ handles.live[k].kind = "Ref"
    /\ Len(handles.live) < MaxHandles
    /\ handles' = [live |-> Append(handles.live, Ref_clone(handles.live[k])),
                   linear |-> handles.linear,
                   op |-> "Ref::clone"]
    /\ UNCHANGED Others

\* r.by_mut()
RefByMut(k, keep) ==
    /\ k \in 1..Len(handles.live)
    /\ handles.live[k].kind = "Ref"
    /\ keep => Len(handles.live) < MaxHandles
    /\ handles' = [live |-> Converted(handles.live, k, keep, Ref_by_mut(handles.live[k])),
                   linear |-> handles.linear /\ ~keep /\ Len(handles.live) = 1,
                   op |-> "Ref::by_mut"]
    /\ UNCHANGED Others

\* A copy of an exclusive handle.
CloneMut(k) ==
    /\ k \in 1..Len(handles.live)
    /\ handles.live[k].kind = "Mut"
    /\ Len(handles.live) < MaxHandles
    /\ handles' = [live |-> Append(handles.live, Mut_clone(handles.live[k])),
                   linear |-> FALSE,
                   op |-> "Mut::clone"]
    /\ UNCHANGED Others

\* m.by_ref()
MutByRef(k, keep) ==
    /\ k \in 1..Len(handles.live)
    /\ handles.live[k].kind = "Mut"
    /\ keep => Len(handles.live) < MaxHandles
    /\ handles' = [live |-> Converted(handles.live, k, keep, Mut_by_ref(handles.live[k])),
                   linear |-> handles.linear /\ ~keep,
                   op |-> "Mut::by_ref"]
    /\ UNCHANGED Others

\* m.extend()
MutExtend(k, keep) ==
    /\ k \in 1..Len(handles.live)
    /\ handles.live[k].kind = "Mut"
    /\ keep => Len(handles.live) < MaxHandles
    /\ handles' = [live |-> Converted(handles.live, k, keep, Mut_extend(handles.live[k])),
                   linear |-> handles.linear /\ ~keep,
                   op |-> "Mut::extend"]
    /\ UNCHANGED Others

\* The last use of a handle is over.
EndHandle(k) ==
    /\ k \in 1..Len(handles.live)
    /\ handles' = [live |-> Without(handles.live, k),
                   linear |-> handles.linear,
                   op |-> "end"]
    /\ UNCHANGED Others

NextPtr ==
    \/ \E in \in Inputs : New(in, 1)
    \/ TakeRef
    \/ TakeMut
    \/ \E k \in 1..MaxHandles : CloneRef(k)
    \/ \E k \in 1..MaxHandles, keep \in BOOLEAN : RefByMut(k, keep)
    \/ \E k \in 1..MaxHandles : CloneMut(k)
    \/ \E k \in 1..MaxHandles, keep \in BOOLEAN : MutByRef(k, keep)
    \/ \E k \in 1..MaxHandles, keep \in BOOLEAN : MutExtend(k, keep)
    \/ \E k \in 1..MaxHandles : EndHandle(k)

SpecPtr == Init /\ [][NextPtr]_vars

(***************************************************************************)
(* fmt.rs: an Indented writer on its own, as the tests of fmt.rs use it:   *)
(* made with a number or without one over an empty output, then written to *)
(* in one or several write_str calls.                                      *)
(***************************************************************************)
MaxText == 4
MaxChunk == 2
MaxWrites == 3

\* The numbers a cause can have: of one, two and five digits, and the first
\* of six.
Numbers == {None, Some(0), Some(2), Some(12), Some(99999), Some(100000)}

Chunks == UNION {[1..n -> {"v", "\n"}] : n \in 0..MaxChunk}

\* Indented { inner: &mut output, number, started: false }
IndentedNew(number) ==
    /\ ~writer.open
    /\ writer' = [NoWriter EXCEPT !.open = TRUE, !.number = number]
    /\ UNCHANGED <<heap, slots, captures, origin, refs, last, chain, yielded, out, handles>>

\* indented.write_str(s)
WriteStr(s) ==
    /\ writer.open
    /\ writer.calls < MaxWrites
    /\ Len(writer.given) + Len(s) <= MaxText
    /\ LET w == Indented_write_str(
                    Indented(writer.inner, writer.number, writer.started), s)
       IN  writer' = [writer EXCEPT !.inner = w.inner, !.started = w.started,
                                    !.given = @ \o s, !.calls = @ + 1]
    /\ UNCHANGED <<heap, slots, captures, origin, refs, last, chain, yielded, out, handles>>

\* The writer goes out of scope.
IndentedDrop ==
    /\ writer.open
    /\ writer' = NoWriter
    /\ UNCHANGED <<heap, slots, captures, origin, refs, last, chain, yielded, out, handles>>

NextIndent ==
    \/ \E number \in Numbers : IndentedNew(number)
    \/ \E s \in Chunks : WriteStr(s)
    \/ IndentedDrop

SpecIndent == Init /\ [][NextIndent]_vars

(***************************************************************************)
(* What the properties are stated with.                                    *)
(***************************************************************************)
\* The causal chain of the container at a, read off the blocks: the payload,
\* then the errors stored with it, then the chain of the Error it wraps.
RECURSIVE CausalChain(_, _)
CausalChain(h, a) ==
    <<Obj(a, 0)>>
        \o (CASE h[a].kind \in {"Std", "Boxed"} ->
                     [k \in 1..(Len(h[a].error) - 1) |-> Obj(a, k + 1)]
              [] h[a].kind = "ContextStd" -> [k \in 1..Len(h[a].error) |-> Obj(a, k)]
              [] h[a].kind = "ContextErr" -> CausalChain(h, h[a].inner)
              [] OTHER -> <<>>)

\* What a cursor yields when next() is called until it returns None.
RECURSIVE ExhaustForward(_, _)
ExhaustForward(h, c) ==
    LET r == Chain_next(h, c)
    IN  IF r.item = None THEN <<>> ELSE r.item \o ExhaustForward(h, r.chain)

\* What a cursor yields when next_back() is called until it returns None.
RECURSIVE ExhaustBackward(_, _)
ExhaustBackward(h, c) ==
    LET r == Chain_next_back(h, c)
    IN  IF r.item = None THEN <<>> ELSE r.item \o ExhaustBackward(h, r.chain)

Cursor == Unwrap(chain)

\* The chain the cursor was made for.
FullChain == IF yielded.head = None THEN <<>> ELSE CausalChain(heap, Unwrap(yielded.head).addr)

Owners(a) ==
    Cardinality({i \in Slot : slots[i] = a})
        + Cardinality({b \in Addr : heap[b].status = "live" /\ heap[b].inner = a})

(***************************************************************************)
(* C1: in every state of a cursor, len() and both bounds of size_hint()    *)
(* equal the number of items an exhaustive forward iteration yields from   *)
(* there, and the number an exhaustive backward iteration yields.          *)
(***************************************************************************)
C1_LenIsExhaustiveCount ==
    chain # None =>
        LET fwd == Len(ExhaustForward(heap, Cursor))
            bwd == Len(ExhaustBackward(heap, Cursor))
        IN  /\ Chain_len(heap, Cursor) = fwd
            /\ Chain_len(heap, Cursor) = bwd
            /\ Chain_size_hint(heap, Cursor) = <<fwd, Some(bwd)>>
            /\ yielded.op = "len" => yielded.len = fwd /\ yielded.len = bwd
            /\ yielded.op = "size_hint" => yielded.hint = <<fwd, Some(bwd)>>

C1_Witness ==
    /\ chain # None
    /\ Cursor.state = "Buffered"
    /\ yielded.op = "len"
    /\ yielded.len = 2
    /\ yielded.front # <<>>
    /\ yielded.back # <<>>

(***************************************************************************)
(* C2: for a chain e0 .. en and any interleaving of next() and             *)
(* next_back(), next() has returned e0, e1, .. in order, next_back() has   *)
(* returned en, en-1, .. in order, no item was returned twice, the items   *)
(* not yet returned are exactly those between, and once all have been      *)
(* returned both calls return nothing.                                     *)
(***************************************************************************)
C2_BothEndsInOrderOnce ==
    chain # None =>
        LET full == FullChain
            n == Len(full)
            f == yielded.front
            b == yielded.back
        IN  /\ Len(f) + Len(b) <= n
            /\ f = SubSeq(full, 1, Len(f))
            /\ \A k \in 1..Len(b) : b[k] = full[n - k + 1]
            /\ ExhaustForward(heap, Cursor) = SubSeq(full, Len(f) + 1, n - Len(b))
            /\ Len(f) + Len(b) = n =>
                   /\ Chain_next(heap, Cursor).item = None
                   /\ Chain_next_back(heap, Cursor).item = None
            /\ yielded.op \in {"next", "next_back"} /\ yielded.ret = None =>
                   Len(f) + Len(b) = n

C2_Witness ==
    /\ chain # None
    /\ Len(FullChain) = 3
    /\ yielded.front = <<FullChain[1]>>
    /\ yielded.back = <<FullChain[3], FullChain[2]>>
    /\ yielded.op = "next"
    /\ yielded.ret = None

(***************************************************************************)
(* C3: downcast::<T> of a container built from a payload of type T         *)
(* returns a value equal to that payload and consumes the container;       *)
(* downcast::<U> for another U fails and gives the container back as it    *)
(* was: its display text, chain and trace are those from before, and       *)
(* downcast::<T> on it still succeeds with the payload.                    *)
(***************************************************************************)
C3_DowncastRoundTrip ==
    last.op = "downcast" /\ last.expected # None =>
        IF last.want = Unwrap(last.expected).ty
        THEN /\ last.payload = last.expected
             /\ heap[last.addr].status = "freed"
             /\ \A i \in Slot : slots[i] # last.addr
        ELSE /\ last.payload = None
             /\ heap[last.addr].status = "live"
             /\ \E i \in Slot : slots[i] = last.addr
             /\ ErrorImpl_display(heap, last.addr, FALSE) = last.text
             /\ ChainTexts(heap, ErrorImpl_chain(last.addr)) = last.items
             /\ ErrorImpl_backtrace(heap, last.addr) = last.trace
             /\ LET again == Error_downcast(heap, last.addr, Unwrap(last.expected).ty)
                IN  again.ok /\ again.payload = last.expected

C3_Witness ==
    /\ last.op = "downcast"
    /\ last.expected # None
    /\ last.want = "ParseError"
    /\ last.payload # None
    /\ Len(Unwrap(last.payload).error) = 2
    /\ \E a \in Addr : heap[a].status = "live" /\ heap[a].vtable = "Str"

(***************************************************************************)
(* C4: the container context(e, ctx) displays as ctx alone, and, when e    *)
(* has no further cause, its extended display is ctx, ": ", and the plain  *)
(* display text of e.                                                      *)
(***************************************************************************)
C4_ContextDisplay ==
    /\ last.op = "context"
    /\ last.recv \in {"ErrStd", "ErrError"}
    /\ out.op = "display"
    /\ out.addr = last.addr
    => /\ ~out.alternate => out.text = last.ctx
       /\ out.alternate /\ ~last.cause => out.text = last.ctx \o <<":", " ">> \o last.text

C4_Witness ==
    /\ last.op = "context"
    /\ last.recv = "ErrError"
    /\ out.op = "display"
    /\ out.addr = last.addr
    /\ out.alternate
    /\ ~last.cause
    /\ last.ctx = <<"d", "\n", "e">>

(***************************************************************************)
(* C5: context / with_context on None give Err of a new container with no  *)
(* cause (a chain of exactly one item) whose display text is the context   *)
(* value; on Some(v) they give Ok(v) and build no container.               *)
(***************************************************************************)
C5_OptionContext ==
    /\ last.op = "context" /\ last.recv = "None" =>
           /\ last.value = None
           /\ heap[last.addr].status = "live"
           /\ Cardinality(Allocated(heap)) = last.allocs + 1
           /\ source(heap, ErrorImpl_error(last.addr)) = None
           /\ Chain_len(heap, ErrorImpl_chain(last.addr)) = 1
           /\ Len(ExhaustForward(heap, ErrorImpl_chain(last.addr))) = 1
           /\ ErrorImpl_display(heap, last.addr, FALSE) = last.ctx
           /\ ErrorImpl_display(heap, last.addr, TRUE) = last.ctx
    /\ last.op = "context" /\ last.recv = "Some" =>
           /\ last.value # None
           /\ last.value = last.given
           /\ last.addr = 0
           /\ Cardinality(Allocated(heap)) = last.allocs

C5_Witness ==
    /\ last.op = "context"
    /\ last.recv = "None"
    /\ last.lazy
    /\ last.ctx = <<"d", "\n", "e">>
    /\ last.allocs = 1

(***************************************************************************)
(* C6: in the debug rendering without the alternate flag, "Caused by:" is  *)
(* followed by the causes in chain order, each starting a line of its own. *)
(* With two or more causes the lines start with the number of the cause,   *)
(* counted from 0, right-aligned in 5 columns and followed by ": "         *)
(* ("    0: cause1", "    1: cause2"); a single cause has no number and    *)
(* starts after exactly 4 spaces.                                          *)
(***************************************************************************)
\* The texts of the causes of the container rendered, head excluded.
CauseTexts(h, a) ==
    LET items == CausalChain(h, a)
    IN  [k \in 1..(Len(items) - 1) |-> Display(h, items[k + 1])]

Sum(f, n) ==
    LET S[k \in 0..n] == IF k = 0 THEN 0 ELSE S[k - 1] + f[k]
    IN  S[n]

\* The line of the rendering on which cause k starts: after the lines of the
\* head, the empty line, "Caused by:" and the lines of the causes before it.
CauseLine(h, a, k) ==
    LET causes == CauseTexts(h, a)
        before == [j \in 1..(k - 1) |-> Len(Split(causes[j]))]
    IN  Len(Split(Display(h, Obj(a, 0)))) + 2 + Sum(before, k - 1) + 1

DebugCauseLines(numbered(_)) ==
    out.op = "debug" =>
        LET causes == CauseTexts(heap, out.addr)
            lines == Split(out.text)
            head == Len(Split(Display(heap, Obj(out.addr, 0))))
        IN  Len(causes) > 0 =>
                /\ lines[head + 1] = <<>>
                /\ lines[head + 2] = Tail(Tail(CausedBy))
                /\ \A k \in 1..Len(causes) :
                       lines[CauseLine(heap, out.addr, k)] =
                           (IF Len(causes) >= 2 THEN numbered(k) ELSE Spaces(4))
                               \o Split(causes[k])[1]

\* The claim as written: causes counted from 1, "   1: cause1".
NumberedFromOne(k) == Spaces(3) \o Digits(k) \o <<":", " ">>

\* What the code writes: causes counted from 0, "    0: cause1".
NumberedFromZero(k) == Spaces(4) \o Digits(k - 1) \o <<":", " ">>

C6_AsClaimed == DebugCauseLines(NumberedFromOne)

C6_DebugCauseList == DebugCauseLines(NumberedFromZero)

C6_Witness ==
    /\ out.op = "debug"
    /\ Len(CauseTexts(heap, out.addr)) = 2
    /\ heap[out.addr].kind = "ContextErr"

(***************************************************************************)
(* C7: when the error being wrapped already carries a trace, context /     *)
(* with_context capture nothing and the trace of the new container is that *)
(* trace, at every depth of wrapping; when it carries none, exactly one    *)
(* trace is captured at the wrap and is the trace of the new container.    *)
(***************************************************************************)
C7_WrapKeepsTrace ==
    /\ last.op = "context" /\ last.recv \in {"ErrStd", "ErrError"} =>
           IF last.trace # NoTrace
           THEN /\ captures = last.caps
                /\ ErrorImpl_backtrace(heap, last.addr) = last.trace
           ELSE /\ captures = last.caps + 1
                /\ ErrorImpl_backtrace(heap, last.addr) = Captured(captures)
    /\ \A a \in Live(heap) :
           /\ heap[a].kind = "ContextErr" =>
                  ErrorImpl_backtrace(heap, a) = ErrorImpl_backtrace(heap, heap[a].inner)
           /\ heap[a].kind = "ContextStd" /\ heap[a].ebt # NoTrace =>
                  ErrorImpl_backtrace(heap, a) = heap[a].ebt

C7_Witness ==
    /\ last.op = "context"
    /\ last.recv = "ErrError"
    /\ last.trace = OriginTrace
    /\ heap[last.inner].kind = "ContextErr"
    /\ heap[heap[last.inner].inner].kind = "ContextStd"
    /\ captures = 0

(***************************************************************************)
(* C8: on Ok(v) / Some(v) context and with_context return v, build no      *)
(* container and with_context does not call its closure; on Err(e) / None  *)
(* with_context calls it exactly once and the container is the one context *)
(* builds from the closure's value.                                        *)
(***************************************************************************)
C8_LazyContext ==
    last.op = "context" =>
        IF last.recv \in {"Ok", "Some"}
        THEN /\ last.value = last.given
             /\ last.value # None
             /\ last.addr = 0
             /\ Cardinality(Allocated(heap)) = last.allocs
             /\ last.thunk = 0
        ELSE /\ last.thunk = (IF last.lazy THEN 1 ELSE 0)
             /\ last.value = None
             /\ Cardinality(Allocated(heap)) = last.allocs + 1
             /\ heap[last.addr].status = "live"
             /\ heap[last.addr].msg = last.ctx
             /\ ErrorImpl_display(heap, last.addr, FALSE) = last.ctx
             /\ heap[last.addr].kind =
                    (CASE last.recv = "ErrStd" -> "ContextStd"
                       [] last.recv = "ErrError" -> "ContextErr"
                       [] last.recv = "None" -> "Display")
             /\ last.recv = "ErrStd" =>
                    /\ heap[last.addr].error = Unwrap(last.input).error
                    /\ heap[last.addr].ebt = Unwrap(last.input).ebt
             /\ last.recv = "ErrError" => heap[last.addr].inner = last.inner
             /\ Tail(ChainTexts(heap, ErrorImpl_chain(last.addr))) = last.items

C8_Witness ==
    /\ last.op = "context"
    /\ last.lazy
    /\ last.recv = "ErrError"
    /\ last.thunk = 1
    /\ Len(last.items) = 3

(***************************************************************************)
(* C9: every allocation has exactly one owner while it is live and none    *)
(* afterwards, is released exactly once, never while a borrowed handle to  *)
(* it is in use, and only by what consumes its owner: by its drop, where   *)
(* the payload's destructor runs before the block is released, or by a     *)
(* downcast that succeeds, where the payload is moved out to the caller    *)
(* and the rest of the block is released.                                  *)
(***************************************************************************)
Releases(a) == Cardinality({k \in 1..Len(heap[a].log) : heap[a].log[k] = "dealloc"})

OwnedOnce ==
    /\ \A a \in Addr :
           /\ heap[a].status = "live" => Owners(a) = 1 /\ Releases(a) = 0
           /\ heap[a].status = "freed" => Owners(a) = 0 /\ Releases(a) = 1
           /\ heap[a].status = "unalloc" => Owners(a) = 0 /\ heap[a].log = <<>>
    /\ \A r \in refs : heap[r].status = "live"
    /\ \A i \in Slot : slots[i] # 0 => heap[slots[i]].status = "live"

\* The claim as written: every release is a drop that ran the payload's
\* destructor first.
C9_AsClaimed ==
    /\ OwnedOnce
    /\ \A a \in Addr :
           heap[a].status = "freed" => heap[a].log = <<"object_drop", "dealloc">>

C9_OwnedAndReleasedOnce ==
    /\ OwnedOnce
    /\ \A a \in Addr :
           heap[a].status = "freed" =>
               \/ heap[a].log = <<"object_drop", "dealloc">>
               \/ heap[a].log = <<"object_drop_rest", "dealloc">>
    /\ last.op = "drop" => heap[last.addr].log = <<"object_drop", "dealloc">>
    /\ last.op = "downcast" /\ last.payload # None =>
           heap[last.addr].log = <<"object_drop_rest", "dealloc">>
    /\ last.op = "downcast" /\ last.payload = None => heap[last.addr].log = <<>>

C9_Witness ==
    /\ last.op = "drop"
    /\ Cardinality({a \in Addr : heap[a].log = <<"object_drop", "dealloc">>}) = 2
    /\ \E a \in Addr : heap[a].log = <<"object_drop_rest", "dealloc">>

(***************************************************************************)
(* C10: the resolution takes exactly one of the three paths: an input that *)
(* converts into an Error and is Display + Debug too takes Trait, never    *)
(* Adhoc; one that is Display + Debug only takes Adhoc and the container   *)
(* has no cause; Boxed is taken exactly for Box<dyn StdError + Send +      *)
(* Sync>.                                                                  *)
(***************************************************************************)
C10_KindResolution ==
    last.op = "new" =>
        /\ last.kind \in {"Adhoc", "Trait", "Boxed"}
        /\ ImplIntoError(last.shape) /\ ImplDisplayDebug(last.shape) => last.kind = "Trait"
        /\ ImplDisplayDebug(last.shape) /\ ~ImplIntoError(last.shape) /\ ~IsBoxDyn(last.shape) =>
               /\ last.kind = "Adhoc"
               /\ source(heap, ErrorImpl_error(last.addr)) = None
               /\ Chain_len(heap, ErrorImpl_chain(last.addr)) = 1
        /\ last.kind = "Boxed" <=> IsBoxDyn(last.shape)
        /\ last.kind = "Adhoc" => heap[last.addr].kind = "Message"
        /\ last.kind = "Trait" /\ last.shape = "std" => heap[last.addr].kind = "Std"
        /\ last.kind = "Boxed" => heap[last.addr].kind = "Boxed"

C10_Witness ==
    /\ last.op = "new"
    /\ last.shape = "std"
    /\ last.kind = "Trait"
    /\ IsSome(source(heap, ErrorImpl_error(last.addr)))

(***************************************************************************)
(* C11: while a cursor lives, whatever next(), next_back(), len() and      *)
(* size_hint() calls are made on it, a buffered cursor stays buffered, a   *)
(* linked cursor becomes buffered only in a next_back() call, and every    *)
(* next_back() call leaves the cursor buffered -- so the change happens at *)
(* most once, in the first next_back() call, and in no other call.         *)
(***************************************************************************)
CursorStep ==
    /\ chain # None /\ chain' # None
    /\ Cursor.state = "Buffered" => Cursor'.state = "Buffered"
    /\ Cursor.state = "Linked" /\ Cursor'.state = "Buffered" =>
           yielded'.op = "next_back"
    /\ yielded'.op = "next_back" => Cursor'.state = "Buffered"
    /\ yielded'.op \in {"next", "len", "size_hint"} => Cursor'.state = Cursor.state

C11_BufferedOnceByNextBack == [][chain # None /\ chain' # None => CursorStep]_vars

\* A cursor made by Chain::new that stepped forward while linked, was then
\* buffered by a backward step and has been used after that.
C11_Witness ==
    /\ chain # None
    /\ yielded.head # None
    /\ Cursor.state = "Buffered"
    /\ Len(yielded.front) = 2
    /\ Len(yielded.back) = 1
    /\ yielded.op = "len"

(***************************************************************************)
(* C12: a cursor made by Chain::default() yields nothing: whatever calls   *)
(* were made on it, in whatever order, every next() and next_back() has    *)
(* returned None, the next ones will too, and len() is 0.                  *)
(***************************************************************************)
C12_DefaultYieldsNothing ==
    chain # None /\ yielded.head = None =>
        /\ yielded.front = <<>>
        /\ yielded.back = <<>>
        /\ yielded.ret = None
        /\ Chain_next(heap, Cursor).item = None
        /\ Chain_next_back(heap, Cursor).item = None
        /\ Chain_len(heap, Cursor) = 0
        /\ yielded.op = "len" => yielded.len = 0
        /\ yielded.op = "size_hint" => yielded.hint = <<0, Some(0)>>

C12_Witness ==
    /\ chain # None
    /\ yielded.head = None
    /\ yielded.op = "next_back"
    /\ slots[1] # 0

(***************************************************************************)
(* C13: the handle types themselves do not keep exclusive handles unique   *)
(* (Mut is Copy, and Ref::by_mut makes an exclusive handle from a shared   *)
(* one whose copies stay usable); as long as the call sites use the        *)
(* handles linearly -- an exclusive handle is made only from the owner or  *)
(* from the only handle there is, is never copied, and the receiver of a   *)
(* conversion is not used again -- at most one exclusive handle to an      *)
(* allocation is alive and no other handle is alive beside it.  Every      *)
(* handle points at the allocation of the owner it was taken from.         *)
(***************************************************************************)
HandlesTo(a, kind) ==
    Cardinality({k \in 1..Len(handles.live) :
                    handles.live[k].ptr = a /\ handles.live[k].kind = kind})

Exclusive ==
    \A a \in Addr :
        /\ HandlesTo(a, "Mut") <= 1
        /\ HandlesTo(a, "Mut") = 1 => HandlesTo(a, "Ref") = 0

RECURSIVE Joined(_, _)
Joined(texts, sep) ==
    IF texts = <<>> THEN <<>>
    ELSE IF Len(texts) = 1 THEN texts[1]
    ELSE texts[1] \o sep \o Joined(Tail(texts), sep)

TextsOf(h, items) == [k \in 1..Len(items) |-> Display(h, items[k])]

C14_DisplayJoinsChain ==
    out.op = "display" =>
        LET texts == TextsOf(heap, CausalChain(heap, out.addr))
        IN  /\ ~out.alternate => out.text = texts[1]
            /\ out.alternate => out.text = Joined(texts, <<":", " ">>)

\* The extended display of a context on a context on an error with a cause.
C14_Witness ==
    /\ out.op = "display"
    /\ out.alternate
    /\ Len(CausalChain(heap, out.addr)) = 4
    /\ heap[out.addr].kind = "ContextErr"

(***************************************************************************)
(* C15: whatever the number and however the text is cut into write_str     *)
(* calls, the output is the text line by line with the prefix written      *)
(* once: a numbered first line starts with the number right-aligned in 5   *)
(* columns and ": ", every continuation line with exactly 7 spaces, and    *)
(* for a number of at most 5 digits that is the column where the text of   *)
(* the first line starts; an unnumbered first line and its continuation    *)
(* lines start with exactly 4 spaces.                                      *)
(***************************************************************************)
\* s right-aligned in a field of w columns; longer than w, s in full.
RightAligned(s, w) == Spaces(IF Len(s) < w THEN w - Len(s) ELSE 0) \o s

\* The prefix of the lines of the output: of the first, of the others.
FirstPrefix(number) ==
    IF IsSome(number) THEN RightAligned(Digits(Unwrap(number)), 5) \o <<":", " ">>
    ELSE Spaces(4)

RestPrefix(number) == IF IsSome(number) THEN Spaces(7) ELSE Spaces(4)

\* The output has the lines of the text, each after its prefix.
PrefixedLines ==
    LET given == Split(writer.given)
        written == Split(writer.inner)
    IN  /\ Len(written) = Len(given)
        /\ written[1] = FirstPrefix(writer.number) \o given[1]
        /\ \A k \in 2..Len(given) : written[k] = RestPrefix(writer.number) \o given[k]

\* The text of the first line starts in the column of the continuation lines.
SameColumn ==
    Len(Split(writer.inner)[1]) - Len(Split(writer.given)[1]) = Len(RestPrefix(writer.number))

\* The claim as written: aligned for every number.
C15_AsClaimed ==
    writer.open /\ writer.calls > 0 => PrefixedLines /\ SameColumn

C15_IndentedPrefixOnce ==
    /\ writer.open /\ writer.calls > 0 =>
           /\ PrefixedLines
           /\ (IsSome(writer.number) => Unwrap(writer.number) < 100000) => SameColumn
    /\ writer.open /\ writer.calls = 0 => writer.inner = <<>>

\* A numbered text of three lines that arrived in three calls.
C15_Witness ==
    /\ writer.open
    /\ writer.calls = 3
    /\ writer.number = Some(12)
    /\ Len(Split(writer.given)) = 3
    /\ Len(writer.given) = 4

(***************************************************************************)
(* C16: a context payload always has a cause, and the chain of a container *)
(* that wraps an error of chain [e0, ..., en] in contexts c1, then c2, ... *)
(* then ck is [ck, ..., c1, e0, ..., en]: each wrap puts exactly one link  *)
(* at the head and leaves the chain of the wrapped error as it was, in     *)
(* order and in content.                                                   *)
(***************************************************************************)
\* The contexts a container was wrapped in, the latest first, and the texts
\* of the chain of the error under them, read off the blocks.
RECURSIVE WrappedIn(_, _)
WrappedIn(h, a) ==
    CASE h[a].kind = "ContextErr" -> <<h[a].msg>> \o WrappedIn(h, h[a].inner)
      [] h[a].kind = "ContextStd" -> <<h[a].msg>>
      [] OTHER -> <<>>

RECURSIVE WrappedTexts(_, _)
WrappedTexts(h, a) ==
    CASE h[a].kind = "ContextErr" -> WrappedTexts(h, h[a].inner)
      [] h[a].kind \in {"ContextStd", "Std", "Boxed"} ->
             [k \in 1..Len(h[a].error) |-> h[a].error[k].text]
      [] OTHER -> <<h[a].msg>>

C16_ContextHeadsChain ==
    /\ last.op = "context" /\ last.recv \in {"ErrStd", "ErrError"} =>
           LET items == ExhaustForward(heap, ErrorImpl_chain(last.addr))
           IN  /\ IsSome(source(heap, ErrorImpl_error(last.addr)))
               /\ Len(items) = Len(last.items) + 1
               /\ Display(heap, items[1]) = last.ctx
               /\ \A k \in 1..Len(last.items) : Display(heap, items[k + 1]) = last.items[k]
               /\ last.recv = "ErrError" =>
                      Tail(items) = ExhaustForward(heap, ErrorImpl_chain(last.inner))
    /\ \A a \in Live(heap) :
           heap[a].kind \in {"ContextStd", "ContextErr"} =>
               LET items == ExhaustForward(heap, ErrorImpl_chain(a))
               IN  /\ IsSome(source(heap, ErrorImpl_error(a)))
                   /\ Len(items) = Len(WrappedIn(heap, a)) + Len(WrappedTexts(heap, a))
                   /\ TextsOf(heap, items) = WrappedIn(heap, a) \o WrappedTexts(heap, a)

\* An error with a cause, wrapped three times, the contexts not all the same.
C16_Witness ==
    /\ last.op = "context"
    /\ last.recv = "ErrError"
    /\ Len(WrappedIn(heap, last.addr)) = 3
    /\ Len(WrappedTexts(heap, last.addr)) = 2
    /\ heap[last.addr].msg # heap[last.inner].msg
    /\ Chain_len(heap, ErrorImpl_chain(last.addr)) = 5

====
